---- MODULE Spec2Model ----
(***************************************************************************)
(* PlaywrightCrawler (src/src/index.ts): a same-origin crawler that visits *)
(* pages depth-first on one shared render surface, up to a page budget.    *)
(*                                                                         *)
(* Strings are sequences of one-character strings, so that startsWith,     *)
(* URL parsing and URL resolution are computed character by character.     *)
(* One action is one synchronous segment of the code, from one await to    *)
(* the next.                                                               *)
(***************************************************************************)
EXTENDS Integers, Sequences, FiniteSets, TLC

VARIABLES
  pc,           \* position of crawl(): "launch","newPage","crawling","close","done","failed"
  browser,      \* this.browser: "null", "open", "closed"
  startUrl,     \* argument of crawl()
  maxPages,     \* argument of crawl()
  site,         \* the web: document URL -> hrefs of its <a> elements, in document order
  baseUrl,      \* const baseUrl of crawl()
  visitedUrls,  \* this.visitedUrls
  pageCount,    \* this.pageCount
  stack,        \* activation records of crawlPage, innermost last
  loaded,       \* the document the shared page currently shows
  gotoLog,      \* history: urls for which page.goto was issued, in order
  saveLog,      \* history: saveToFile calls, [url, file, ok], in order
  errors,       \* history: the errors raised so far, [url, op]
  order,        \* history: urls admitted by crawlPage, in order
  run,          \* the number of calls of crawl() made on this crawler so far
  other         \* a second call of crawl() in progress on this crawler, while it is
                \* suspended at an await: its pc, startUrl, maxPages, baseUrl, stack and
                \* page; pc "none" when there is no such call

vars == <<pc, browser, startUrl, maxPages, site, baseUrl, visitedUrls, pageCount,
          stack, loaded, gotoLog, saveLog, errors, order, run, other>>

-----------------------------------------------------------------------------
(* Bounds of the model *)

\* crawl() is called with maxPages in 0..MaxBudget
MaxBudget == 5
\* crawl() is called at most this many times, one call after the other, on one crawler
MaxRuns == 2
\* two concurrent calls of crawl() are made with the same maxPages in 1..MaxConcBudget
MaxConcBudget == 4
\* at most this many calls of the renderer or the filesystem fail in the life of a crawler
MaxFailures == 3

-----------------------------------------------------------------------------
(* Strings *)

Http == <<"h", "t", "t", "p">>
SchemeSep == <<":", "/", "/">>
Slash == <<"/">>
Hash == <<"#">>

\* String.prototype.startsWith
StartsWith(s, p) == Len(p) <= Len(s) /\ SubSeq(s, 1, Len(p)) = p

\* index of the first character of s at or after position from that lies in cs; Len(s)+1 if none
RECURSIVE FirstIn(_, _, _)
FirstIn(s, cs, from) ==
  IF from > Len(s) THEN Len(s) + 1
  ELSE IF s[from] \in cs THEN from
  ELSE FirstIn(s, cs, from + 1)

\* the scheme of an absolute URL string, <<>> if it has none
SchemeOf(s) ==
  LET c == FirstIn(s, {":", "/", "#", "?"}, 1)
  IN IF c > 1 /\ c <= Len(s) /\ s[c] = ":" THEN SubSeq(s, 1, c - 1) ELSE <<>>

\* the host of "scheme://host/..." ; <<>> if missing
HostOf(s) ==
  LET sch == SchemeOf(s)
      a == Len(sch) + 4
      e == FirstIn(s, {"/", "#", "?"}, a)
  IN IF sch = <<>> \/ ~StartsWith(SubSeq(s, Len(sch) + 1, Len(s)), SchemeSep) THEN <<>>
     ELSE SubSeq(s, a, e - 1)

\* new URL(s) throws
UrlThrows(s) == SchemeOf(s) = <<>> \/ HostOf(s) = <<>>

\* new URL(s).origin, for s that parses
OriginOf(s) == SchemeOf(s) \o SchemeSep \o HostOf(s)

\* new URL(s).href, for s that parses: an empty path becomes "/"
HrefOf(s) ==
  LET o == OriginOf(s)
      rest == SubSeq(s, Len(o) + 1, Len(s))
  IN IF rest = <<>> \/ rest[1] # "/" THEN o \o Slash \o rest ELSE s

\* new URL(href, base) throws, for a href that is relative and a base that is an origin
ResolveThrows(href, base) ==
  IF StartsWith(href, <<"/", "/">>)
    THEN UrlThrows(SchemeOf(base) \o <<":">> \o href)
    ELSE FALSE

\* new URL(href, base).href, for a href without scheme and a base that is an origin
Resolve(href, base) ==
  IF SchemeOf(href) # <<>> THEN href
  ELSE IF StartsWith(href, <<"/", "/">>) THEN HrefOf(SchemeOf(base) \o <<":">> \o href)
  ELSE IF StartsWith(href, Slash) THEN base \o href
  ELSE base \o Slash \o href

-----------------------------------------------------------------------------
(* The web the crawler runs against *)

\* "http://s", the origin of the seed
Org == Http \o SchemeSep \o <<"s">>
Root == Org \o Slash
PageA == Root \o <<"a">>
PageB == Root \o <<"b">>
PageC == Root \o <<"c">>
\* "http://sx/": another host, whose name extends the seed's host
Evil == Http \o SchemeSep \o <<"s", "x">> \o Slash
\* "http://o/": another host
Other == Http \o SchemeSep \o <<"o">> \o Slash

Pages == {Root, PageA, PageB, PageC, Evil, Other}

NoLinks == [p \in Pages |-> <<>>]

\* / -> /a, /b ; /a -> /, /c
SiteScenario ==
  [NoLinks EXCEPT ![Root] = << <<"/", "a">>, <<"/", "b">> >>,
                  ![PageA] = << <<"/">>, <<"/", "c">> >>]

\* a cycle, the same link written several ways, a fragment and an empty href
SiteCycle ==
  [NoLinks EXCEPT ![Root] = << <<"a">>, <<"/", "a">>, <<"#", "t">>, <<>>, PageA >>,
                  ![PageA] = << Root, <<"/", "b">> >>,
                  ![PageB] = << <<"/", "a">>, <<"/">>, Org >>]

\* links that leave the seed's origin
SiteForeign ==
  [NoLinks EXCEPT ![Root] = << Other, Evil, <<"/", "a">> >>,
                  ![Evil] = << <<"/", "b">>, Evil \o <<"c">> >>,
                  ![Other] = << <<"/", "c">> >>]

\* a href that new URL() rejects
SiteMalformed ==
  [NoLinks EXCEPT ![Root] = << <<"/", "a">>, <<"/", "b">> >>,
                  ![PageA] = << <<"/", "c">>, <<"/", "/">> >>]

\* a chain that closes on the seed
SiteChain ==
  [NoLinks EXCEPT ![Root] = << <<"/", "a">> >>,
                  ![PageA] = << <<"/", "b">> >>,
                  ![PageB] = << <<"/", "c">> >>,
                  ![PageC] = << <<"/">>, <<"/", "a">> >>]

\* every page links to every page
SiteFull ==
  [p \in Pages |-> IF p \in {Root, PageA, PageB, PageC}
                     THEN << <<"/", "c">>, <<"/", "b">>, <<"/", "a">>, <<"/">> >>
                     ELSE <<>>]

\* paths that differ in letter case or in a non-alphanumeric character only
SiteAlike ==
  [NoLinks EXCEPT ![Root] = << <<"/", "A">>, <<"/", "-", "a">>, <<"/", "a">> >>]

Sites == {SiteScenario, SiteCycle, SiteForeign, SiteMalformed, SiteChain, SiteFull,
          SiteAlike}

\* the seeds crawl() is called with: "http://s/", "http://s" and "s"
Seeds == {Root, Org, <<"s">>}

\* the hrefs of the <a> elements of the document at url (an absent href attribute
\* and an empty one are both falsy at lines 72 and 75: both are the empty string here)
Doc(url) ==
  IF url # <<>> /\ ~UrlThrows(url) /\ HrefOf(url) \in Pages THEN site[HrefOf(url)] ELSE <<>>

-----------------------------------------------------------------------------
(* discoverLinks *)

\* lines 72-74: the href after resolution
Resolved(href, base) ==
  IF href # <<>> /\ ~StartsWith(href, Http) /\ ~StartsWith(href, Hash)
    THEN Resolve(href, base) ELSE href

\* line 72-73: resolving this href throws
HrefThrows(href, base) ==
  href # <<>> /\ ~StartsWith(href, Http) /\ ~StartsWith(href, Hash)
  /\ SchemeOf(href) = <<>> /\ ResolveThrows(href, base)

\* line 75: the candidate is kept
Accepts(h, base) == h # <<>> /\ StartsWith(h, base)

InSeq(x, s) == \E k \in 1..Len(s) : s[k] = x

\* lines 75-77 collecting the links in reverse document order
AddLink_Reversed(acc, h, base) ==
  IF Accepts(h, base) /\ ~InSeq(h, acc) THEN <<h>> \o acc ELSE acc

\* lines 75-77: links.add(href) when the candidate is kept; a Set keeps the first insertion
AddLink(acc, h, base) == IF Accepts(h, base) /\ ~InSeq(h, acc) THEN Append(acc, h) ELSE acc

\* lines 69-79: the forEach over the anchors, from the k-th on, acc being the Set so far
\* (the singleton sets evaluate each intermediate value once)
RECURSIVE AddLinks(_, _, _, _)
AddLinks(hrefs, k, base, acc) ==
  IF k > Len(hrefs) THEN acc
  ELSE LET next == {AddLink(acc, h, base) : h \in {Resolved(hrefs[k], base)}}
       IN CHOOSE r \in {AddLinks(hrefs, k + 1, base, a) : a \in next} : TRUE

discoverLinks(hrefs, base) == AddLinks(hrefs, 1, base, <<>>)

\* the forEach callback throws on some element, so page.evaluate rejects
discoverThrows(hrefs, base) == \E k \in 1..Len(hrefs) : HrefThrows(hrefs[k], base)

-----------------------------------------------------------------------------
(* urlToFileName *)

LowerCase == <<"a", "b", "c", "d", "e", "f", "g", "h", "i", "j", "k", "l", "m",
               "n", "o", "p", "q", "r", "s", "t", "u", "v", "w", "x", "y", "z">>
UpperCase == <<"A", "B", "C", "D", "E", "F", "G", "H", "I", "J", "K", "L", "M",
               "N", "O", "P", "Q", "R", "S", "T", "U", "V", "W", "X", "Y", "Z">>
Digits == {"0", "1", "2", "3", "4", "5", "6", "7", "8", "9"}

\* the class [a-zA-Z0-9] of line 118
Alnum == {LowerCase[k] : k \in DOMAIN LowerCase} \cup {UpperCase[k] : k \in DOMAIN UpperCase}
           \cup Digits

\* line 117: .replace(/^https?:\/\//, "")
StripScheme(s) ==
  IF StartsWith(s, Http \o SchemeSep) THEN SubSeq(s, Len(Http) + Len(SchemeSep) + 1, Len(s))
  ELSE IF StartsWith(s, Http \o <<"s">> \o SchemeSep)
    THEN SubSeq(s, Len(Http) + Len(SchemeSep) + 2, Len(s))
  ELSE s

\* line 118: .replace(/[^a-zA-Z0-9]/g, "_")
ReplaceNonAlnum(s) == [k \in DOMAIN s |-> IF s[k] \in Alnum THEN s[k] ELSE "_"]

\* line 119: .replace(/_+/g, "_"), from position k on
RECURSIVE CollapseFrom(_, _)
CollapseFrom(s, k) ==
  IF k > Len(s) THEN <<>>
  ELSE (IF s[k] = "_" /\ k > 1 /\ s[k - 1] = "_" THEN <<>> ELSE <<s[k]>>)
         \o CollapseFrom(s, k + 1)

\* line 120: .toLowerCase(), of one character
LowerOf(c) ==
  IF \E k \in DOMAIN UpperCase : UpperCase[k] = c
    THEN LowerCase[CHOOSE k \in DOMAIN UpperCase : UpperCase[k] = c]
    ELSE c

\* line 120: .toLowerCase()
toLowerCase(s) == [k \in DOMAIN s |-> LowerOf(s[k])]

\* line 121: + ".txt"
Txt == <<".", "t", "x", "t">>

\* lines 115-123 with the class of line 118 not negated
urlToFileName_NoCaret(url) ==
  LET s == StripScheme(url)
      r == [k \in DOMAIN s |-> IF s[k] \in Alnum THEN "_" ELSE s[k]]
  IN toLowerCase(CollapseFrom(r, 1)) \o Txt

\* lines 115-123
urlToFileName(url) ==
  toLowerCase(CollapseFrom(ReplaceNonAlnum(StripScheme(url)), 1)) \o Txt

-----------------------------------------------------------------------------
(* crawlPage *)

Top(stk) == stk[Len(stk)]
SetTop(stk, f) == [stk EXCEPT ![Len(stk)] = f]
Pop(stk) == SubSeq(stk, 1, Len(stk) - 1)

\* the part of the state the synchronous segments of crawlPage change
Mem == [pc |-> pc, stack |-> stack, visitedUrls |-> visitedUrls,
        order |-> order, gotoLog |-> gotoLog]

Apply(m) ==
  /\ pc' = m.pc
  /\ stack' = m.stack
  /\ visitedUrls' = m.visitedUrls
  /\ order' = m.order
  /\ gotoLog' = m.gotoLog

\* line 35 with > for >=
Admits_OffByOne(url, visited, max) == ~(Cardinality(visited) > max \/ url \in visited)

\* line 35 without the visitedUrls.has(url) test
Admits_NoHas(url, visited, max) == ~(Cardinality(visited) >= max)

\* line 35, negated: the url is admitted
Admits(url, visited, max) == ~(Cardinality(visited) >= max \/ url \in visited)

\* line 55 without the budget test
BudgetLeft_Always(visited, max) == TRUE

\* line 55
BudgetLeft(visited, max) == Cardinality(visited) < max

\* lines 35-43 without line 40: the url is not marked before page.goto is called
CrawlPageEntry_MarkLate(url, m) ==
  IF Admits(url, m.visitedUrls, maxPages)
    THEN [m EXCEPT !.order = Append(@, url),
                   !.gotoLog = Append(@, url),
                   !.stack = Append(@, [url |-> url, pc |-> "goto", links |-> <<>>, i |-> 0])]
    ELSE m

\* lines 35-43: a call of crawlPage, up to its first await
CrawlPageEntry(url, m) ==
  IF Admits(url, m.visitedUrls, maxPages)
    THEN [m EXCEPT !.visitedUrls = @ \cup {url},
                   !.order = Append(@, url),
                   !.gotoLog = Append(@, url),
                   !.stack = Append(@, [url |-> url, pc |-> "goto", links |-> <<>>, i |-> 0])]
    ELSE m

\* crawlPage returns to its caller
Return(m) == [m EXCEPT !.stack = Pop(@)]

\* lines 62-64 rethrowing the error: it unwinds every crawlPage and rejects crawl
CatchError_Rethrow(m) == [m EXCEPT !.stack = <<>>, !.pc = "failed"]

\* lines 42-64 with the try block closed right after the failing call: the error is
\* logged and crawlPage goes on to save
CatchError_GoOn(m) == [m EXCEPT !.stack = SetTop(@, [Top(@) EXCEPT !.pc = "save"])]

\* lines 62-64: the error is logged and crawlPage returns normally
CatchError(m) == Return(m)

\* lines 54-61: the loop from the top frame's index, up to the next await
ForLoop(m) ==
  LET f == Top(m.stack)
  IN IF f.i <= Len(f.links) /\ BudgetLeft(m.visitedUrls, maxPages)
       THEN CrawlPageEntry(f.links[f.i],
                           [m EXCEPT !.stack = SetTop(@, [f EXCEPT !.pc = "await"])])
       ELSE Return(m)

\* line 54 with a loop that takes every other link
NextIndex_Skip(i) == i + 2

\* line 54 with a loop that never advances
NextIndex_Stuck(i) == i

\* line 54: the loop moves to the next link
NextIndex(i) == i + 1

\* lines 106-112 with pageCount++ after the try block
CountAfterWrite_Always(count, ok) == count + 1

\* lines 106-112: pageCount after the write
CountAfterWrite(count, ok) == IF ok THEN count + 1 ELSE count

Running(p) == pc = "crawling" /\ stack # <<>> /\ Top(stack).pc = p
CanFail == Cardinality(errors) < MaxFailures
Fail(op) == errors' = errors \cup {[url |-> Top(stack).url, op |-> op]}

\* no second call of crawl() is in progress
NoCall == [pc |-> "none", startUrl |-> <<>>, maxPages |-> 0, baseUrl |-> <<>>,
           stack |-> <<>>, loaded |-> <<>>]

-----------------------------------------------------------------------------
(* Actions *)

Init ==
  /\ pc = "launch"
  /\ browser = "null"
  /\ startUrl \in Seeds
  /\ maxPages \in 0..MaxBudget
  /\ site \in Sites
  /\ baseUrl = <<>>
  /\ visitedUrls = {}
  /\ pageCount = 0
  /\ stack = <<>>
  /\ loaded = <<>>
  /\ gotoLog = <<>>
  /\ saveLog = <<>>
  /\ errors = {}
  /\ order = <<>>
  /\ run = 1
  /\ other = NoCall

\* line 18: chromium.launch() resolves
Launch ==
  /\ pc = "launch"
  /\ pc' = "newPage"
  /\ browser' = "open"
  /\ UNCHANGED <<run, other>>
  /\ UNCHANGED <<startUrl, maxPages, site, baseUrl, visitedUrls, pageCount, stack,
                 loaded, gotoLog, saveLog, errors, order>>

\* line 18: chromium.launch() rejects
LaunchFails ==
  /\ pc = "launch"
  /\ pc' = "failed"
  /\ UNCHANGED <<run, other>>
  /\ UNCHANGED <<browser, startUrl, maxPages, site, baseUrl, visitedUrls, pageCount,
                 stack, loaded, gotoLog, saveLog, errors, order>>

\* lines 19-22: newPage resolves, the seed parses, crawlPage is called
NewPage ==
  /\ pc = "newPage"
  /\ ~UrlThrows(startUrl)
  /\ baseUrl' = OriginOf(startUrl)
  /\ \E m \in {CrawlPageEntry(startUrl, [Mem EXCEPT !.pc = "crawling"])} : Apply(m)
  /\ UNCHANGED <<run, other>>
  /\ UNCHANGED <<browser, startUrl, maxPages, site, pageCount, loaded, saveLog, errors>>

\* line 20: new URL(startUrl) throws
SeedThrows ==
  /\ pc = "newPage"
  /\ UrlThrows(startUrl)
  /\ pc' = "failed"
  /\ UNCHANGED <<run, other>>
  /\ UNCHANGED <<browser, startUrl, maxPages, site, baseUrl, visitedUrls, pageCount,
                 stack, loaded, gotoLog, saveLog, errors, order>>

\* line 19: browser.newPage() rejects
NewPageFails ==
  /\ pc = "newPage"
  /\ pc' = "failed"
  /\ UNCHANGED <<run, other>>
  /\ UNCHANGED <<browser, startUrl, maxPages, site, baseUrl, visitedUrls, pageCount,
                 stack, loaded, gotoLog, saveLog, errors, order>>

\* line 43: page.goto resolves
Goto ==
  /\ Running("goto")
  /\ loaded' = Top(stack).url
  /\ stack' = SetTop(stack, [Top(stack) EXCEPT !.pc = "wait"])
  /\ UNCHANGED <<run, other>>
  /\ UNCHANGED <<pc, browser, startUrl, maxPages, site, baseUrl, visitedUrls, pageCount,
                 gotoLog, saveLog, errors, order>>

\* line 43: page.goto rejects
GotoFails ==
  /\ Running("goto")
  /\ CanFail
  /\ Fail("goto")
  /\ \E m \in {CatchError(Mem)} : Apply(m)
  /\ UNCHANGED <<run, other>>
  /\ UNCHANGED <<browser, startUrl, maxPages, site, baseUrl, pageCount, loaded, saveLog>>

\* line 46: page.waitForLoadState resolves, extractContent is called
WaitForLoadState ==
  /\ Running("wait")
  /\ stack' = SetTop(stack, [Top(stack) EXCEPT !.pc = "extract"])
  /\ UNCHANGED <<run, other>>
  /\ UNCHANGED <<pc, browser, startUrl, maxPages, site, baseUrl, visitedUrls, pageCount,
                 loaded, gotoLog, saveLog, errors, order>>

\* line 46: page.waitForLoadState rejects
WaitForLoadStateFails ==
  /\ Running("wait")
  /\ CanFail
  /\ Fail("wait")
  /\ \E m \in {CatchError(Mem)} : Apply(m)
  /\ UNCHANGED <<run, other>>
  /\ UNCHANGED <<browser, startUrl, maxPages, site, baseUrl, pageCount, loaded, saveLog>>

\* lines 48-49, 103-107: extractContent resolves, saveToFile starts the write
ExtractContent ==
  /\ Running("extract")
  /\ stack' = SetTop(stack, [Top(stack) EXCEPT !.pc = "save"])
  /\ UNCHANGED <<run, other>>
  /\ UNCHANGED <<pc, browser, startUrl, maxPages, site, baseUrl, visitedUrls, pageCount,
                 loaded, gotoLog, saveLog, errors, order>>

\* line 48: extractContent rejects
ExtractContentFails ==
  /\ Running("extract")
  /\ CanFail
  /\ Fail("extract")
  /\ \E m \in {CatchError(Mem)} : Apply(m)
  /\ UNCHANGED <<run, other>>
  /\ UNCHANGED <<browser, startUrl, maxPages, site, baseUrl, pageCount, loaded, saveLog>>

\* lines 107-109, 51: the write resolves, discoverLinks is called
SaveToFile ==
  /\ Running("save")
  /\ pageCount' = CountAfterWrite(pageCount, TRUE)
  /\ saveLog' = Append(saveLog, [url |-> Top(stack).url,
                                file |-> urlToFileName(Top(stack).url), ok |-> TRUE])
  /\ stack' = SetTop(stack, [Top(stack) EXCEPT !.pc = "discover"])
  /\ UNCHANGED <<run, other>>
  /\ UNCHANGED <<pc, browser, startUrl, maxPages, site, baseUrl, visitedUrls, loaded,
                 gotoLog, errors, order>>

\* lines 107, 110-112, 51: the write rejects, saveToFile logs it, discoverLinks is called
SaveToFileFails ==
  /\ Running("save")
  /\ CanFail
  /\ Fail("save")
  /\ pageCount' = CountAfterWrite(pageCount, FALSE)
  /\ saveLog' = Append(saveLog, [url |-> Top(stack).url,
                                file |-> urlToFileName(Top(stack).url), ok |-> FALSE])
  /\ stack' = SetTop(stack, [Top(stack) EXCEPT !.pc = "discover"])
  /\ UNCHANGED <<run, other>>
  /\ UNCHANGED <<pc, browser, startUrl, maxPages, site, baseUrl, visitedUrls, loaded,
                 gotoLog, order>>

\* lines 51-57: discoverLinks resolves and the loop starts
DiscoverLinks ==
  /\ Running("discover")
  /\ \E hrefs \in {Doc(loaded)} : \E links \in {discoverLinks(hrefs, baseUrl)} :
       /\ ~discoverThrows(hrefs, baseUrl)
       /\ \E f \in {[Top(stack) EXCEPT !.pc = "loop", !.links = links, !.i = 1]} :
            \E m \in {ForLoop([Mem EXCEPT !.stack = SetTop(@, f)])} : Apply(m)
  /\ UNCHANGED <<run, other>>
  /\ UNCHANGED <<browser, startUrl, maxPages, site, baseUrl, pageCount, loaded, saveLog,
                 errors>>

\* lines 68-80: the script throws inside the page, so discoverLinks rejects
DiscoverLinksThrows ==
  /\ Running("discover")
  /\ \E hrefs \in {Doc(loaded)} : discoverThrows(hrefs, baseUrl)
  /\ Fail("href")
  /\ \E m \in {CatchError(Mem)} : Apply(m)
  /\ UNCHANGED <<run, other>>
  /\ UNCHANGED <<browser, startUrl, maxPages, site, baseUrl, pageCount, loaded, saveLog>>

\* line 51: page.evaluate rejects for a reason of the renderer
DiscoverLinksFails ==
  /\ Running("discover")
  /\ CanFail
  /\ Fail("discover")
  /\ \E m \in {CatchError(Mem)} : Apply(m)
  /\ UNCHANGED <<run, other>>
  /\ UNCHANGED <<browser, startUrl, maxPages, site, baseUrl, pageCount, loaded, saveLog>>

\* lines 54-61: the awaited crawlPage has returned, the loop goes on
Resume ==
  /\ Running("await")
  /\ \E f \in {[Top(stack) EXCEPT !.pc = "loop", !.i = NextIndex(@)]} :
       \E m \in {ForLoop([Mem EXCEPT !.stack = SetTop(@, f)])} : Apply(m)
  /\ UNCHANGED <<run, other>>
  /\ UNCHANGED <<browser, startUrl, maxPages, site, baseUrl, pageCount, loaded, saveLog,
                 errors>>

\* lines 22-24: the outermost crawlPage has returned, browser.close() is called
CallClose ==
  /\ pc = "crawling"
  /\ stack = <<>>
  /\ pc' = "close"
  /\ UNCHANGED <<run, other>>
  /\ UNCHANGED <<browser, startUrl, maxPages, site, baseUrl, visitedUrls, pageCount,
                 stack, loaded, gotoLog, saveLog, errors, order>>

\* lines 24-26: browser.close() resolves, the completion report is logged
Close ==
  /\ pc = "close"
  /\ browser' = "closed"
  /\ pc' = "done"
  /\ UNCHANGED <<run, other>>
  /\ UNCHANGED <<startUrl, maxPages, site, baseUrl, visitedUrls, pageCount, stack,
                 loaded, gotoLog, saveLog, errors, order>>

Next ==
  \/ Launch
  \/ LaunchFails
  \/ NewPage
  \/ SeedThrows
  \/ NewPageFails
  \/ Goto
  \/ GotoFails
  \/ WaitForLoadState
  \/ WaitForLoadStateFails
  \/ ExtractContent
  \/ ExtractContentFails
  \/ SaveToFile
  \/ SaveToFileFails
  \/ DiscoverLinks
  \/ DiscoverLinksThrows
  \/ DiscoverLinksFails
  \/ Resume
  \/ CallClose
  \/ Close

Spec == Init /\ [][Next]_vars

\* lines 17, 127-130: crawl() is called again on the same crawler, after the call before
\* it has completed; the fields keep what the class never resets, the histories of the
\* run start anew
CrawlAgain ==
  /\ pc = "done"
  /\ other = NoCall
  /\ run < MaxRuns
  /\ run' = run + 1
  /\ pc' = "launch"
  /\ startUrl' \in Seeds
  /\ maxPages' \in 0..MaxBudget
  /\ baseUrl' = <<>>
  /\ stack' = <<>>
  /\ loaded' = <<>>
  /\ gotoLog' = <<>>
  /\ saveLog' = <<>>
  /\ order' = <<>>
  /\ UNCHANGED <<browser, site, visitedUrls, pageCount, errors, other>>

ReuseNext ==
  \/ Next
  \/ CrawlAgain

\* a crawler on which crawl() is called up to MaxRuns times
ReuseSpec == Init /\ [][ReuseNext]_vars

\* the state of the call of crawl() that is running
Call == [pc |-> pc, startUrl |-> startUrl, maxPages |-> maxPages, baseUrl |-> baseUrl,
         stack |-> stack, loaded |-> loaded]

\* lines 18-57: every await is a suspension point; the call that is running is
\* suspended there and the other call of crawl() on this crawler goes on from the
\* await where it was suspended. The fields of the crawler are shared by both calls.
Switch ==
  /\ other.pc # "none"
  /\ other' = Call
  /\ pc' = other.pc
  /\ startUrl' = other.startUrl
  /\ maxPages' = other.maxPages
  /\ baseUrl' = other.baseUrl
  /\ stack' = other.stack
  /\ loaded' = other.loaded
  /\ UNCHANGED <<browser, site, visitedUrls, pageCount, gotoLog, saveLog, errors, order,
                 run>>

\* the sites on which two concurrent calls are made
ConcSites == {SiteCycle, SiteMalformed}

\* crawl() has been called twice on one crawler, as in
\* Promise.all([c.crawl(u1, n), c.crawl(u2, n)]): both calls await chromium.launch()
ConcInit ==
  /\ pc = "launch"
  /\ browser = "null"
  /\ startUrl \in Seeds
  /\ maxPages \in 1..MaxConcBudget
  /\ site \in ConcSites
  /\ baseUrl = <<>>
  /\ visitedUrls = {}
  /\ pageCount = 0
  /\ stack = <<>>
  /\ loaded = <<>>
  /\ gotoLog = <<>>
  /\ saveLog = <<>>
  /\ errors = {}
  /\ order = <<>>
  /\ run = 2
  /\ \E u \in Seeds :
       other = [NoCall EXCEPT !.pc = "launch", !.startUrl = u, !.maxPages = maxPages]

ConcNext ==
  \/ Next
  \/ Switch

\* two calls of crawl() on one crawler that interleave at their awaits
ConcSpec == ConcInit /\ [][ConcNext]_vars

\* every call of the renderer and of the filesystem eventually returns or fails, and
\* the event loop runs every continuation that is ready
FairSpec == Spec /\ WF_vars(Next)

-----------------------------------------------------------------------------
(* Vocabulary of the properties *)

Count(s, x) == Cardinality({k \in 1..Len(s) : s[k] = x})
NoDuplicates(s) == \A j, k \in 1..Len(s) : s[j] = s[k] => j = k
Range(s) == {s[k] : k \in 1..Len(s)}
Min(a, b) == IF a < b THEN a ELSE b

\* urls for which saveToFile was called, in order
SaveUrls == [k \in 1..Len(saveLog) |-> saveLog[k].url]
\* urls whose artifact was written
Saved == {e.url : e \in {x \in Range(saveLog) : x.ok}}
\* urls whose write failed
SaveFailed == {e.url : e \in {x \in Range(saveLog) : ~x.ok}}

Ended == pc \in {"done", "failed"}

\* the links crawlPage follows from the page at u
Succ(u) ==
  IF discoverThrows(Doc(u), OriginOf(startUrl)) THEN {}
  ELSE Range(discoverLinks(Doc(u), OriginOf(startUrl)))

\* the urls reachable from S through accepted links, following no link of a page in X
RECURSIVE ReachFrom(_, _)
ReachFrom(S, X) ==
  LET N == S \cup UNION {Succ(u) : u \in S \ X}
  IN IF N = S THEN S ELSE ReachFrom(N, X)

Reachable(X) == ReachFrom({startUrl}, X)

-----------------------------------------------------------------------------
(* C1 *)

\* C1: in every state of a run at most maxPages urls have been admitted into
\* visitedUrls, and a step admits a url only from a state where visitedUrls.size is
\* strictly below maxPages.
Budget ==
  /\ [](Len(order) <= maxPages /\ Cardinality(visitedUrls) <= maxPages)
  /\ [][visitedUrls' # visitedUrls => Cardinality(visitedUrls) < maxPages]_vars

\* the budget is used up while a page still has links that were never visited
BudgetWitness ==
  /\ maxPages = 2
  /\ Cardinality(visitedUrls) = 2
  /\ \E k \in 1..Len(stack) :
       \E j \in 1..Len(stack[k].links) :
         j > stack[k].i /\ stack[k].links[j] \notin visitedUrls

(* C2 *)

\* C2: no url is admitted twice, page.goto is issued at most once per url and
\* saveToFile is called at most once per url.
Uniqueness == NoDuplicates(order) /\ NoDuplicates(gotoLog) /\ NoDuplicates(SaveUrls)

\* with budget left, a page deeper in the crawl called crawlPage on the seed, which is
\* on the stack, and the call returned at once
UniquenessWitness ==
  /\ Running("await")
  /\ Len(stack) >= 2
  /\ Top(stack).links[Top(stack).i] = stack[1].url
  /\ Cardinality(visitedUrls) < maxPages

(* C3 *)

\* C3: when every call eventually returns or fails, crawl eventually ends, with at
\* most maxPages urls visited.
Termination == <>(Ended /\ Len(order) <= maxPages)

\* the crawl of the cyclic site has ended after using its whole budget
TerminationWitness ==
  /\ pc = "done"
  /\ site = SiteCycle
  /\ maxPages = 3
  /\ Len(order) = 3

(* C4 *)

\* the render (page.goto) of exactly one url failed, and nothing else failed
OnlyGotoFailed(x) == errors = {[url |-> x, op |-> "goto"]}

\* C4: when the render of one url x fails and nothing else does, the crawl still ends
\* normally; the urls visited are min(maxPages, R) of the R urls that can be reached
\* without following a link of x, and every visited url other than x is saved.
FailureIsolation ==
  \A x \in visitedUrls :
    (Ended /\ OnlyGotoFailed(x)) =>
      /\ pc = "done"
      /\ visitedUrls \subseteq Reachable({x})
      /\ Cardinality(visitedUrls) = Min(maxPages, Cardinality(Reachable({x})))
      /\ Saved = visitedUrls \ {x}

\* the render of /a failed, and /b, the sibling after it, was visited and saved
FailureIsolationWitness ==
  /\ pc = "done"
  /\ site = SiteScenario
  /\ OnlyGotoFailed(PageA)
  /\ order = <<Root, PageA, PageB>>
  /\ Saved = {Root, PageB}

(* C5 *)

\* the scenario: seed /, / -> /a, /b and /a -> /, /c, budget 3, no failure
Scenario ==
  /\ site = SiteScenario
  /\ startUrl = Root
  /\ maxPages = 3
  /\ errors = {}

\* C5 as stated: the scenario ends with visited set {/, /a, /b} and 3 artifacts, one
\* for each of them.
ScenarioAsStated ==
  (Scenario /\ pc = "done") =>
    /\ visitedUrls = {Root, PageA, PageB}
    /\ Len(saveLog) = 3
    /\ Saved = {Root, PageA, PageB}

\* C5 as amended: the scenario ends with visited set {/, /a, /c}, visited in that
\* order, and 3 artifacts, one for each of them.
ScenarioDepthFirst ==
  (Scenario /\ pc = "done") =>
    /\ visitedUrls = {Root, PageA, PageC}
    /\ order = <<Root, PageA, PageC>>
    /\ Len(saveLog) = 3
    /\ Saved = {Root, PageA, PageC}
    /\ pageCount = 3

\* the scenario has run to its completion report
ScenarioWitness == Scenario /\ pc = "done"

(* C6 *)

\* C6: every url whose artifact is saved has the origin of the seed, and every link
\* discoverLinks returned has the origin of the seed.
SameOrigin ==
  /\ \A u \in Saved : OriginOf(u) = OriginOf(startUrl)
  /\ \A k \in 1..Len(stack) :
       \A j \in 1..Len(stack[k].links) : OriginOf(stack[k].links[j]) = OriginOf(startUrl)

(* C7 *)

\* C7: no terminal state of crawl leaves a launched browser unclosed.
RendererReleased == Ended => browser # "open"

(* C8 *)

\* every failure of the run is a failed write, and there is one
OnlySavesFailed == errors # {} /\ \A e \in errors : e.op = "save"

\* C8: pageCount is the number of successful writes; a url whose write failed stays
\* in visitedUrls and is rendered once and saved once; and when only writes fail the
\* crawl still visits min(maxPages, R) of the R reachable urls.
SaveFailure ==
  /\ pageCount = Cardinality({k \in 1..Len(saveLog) : saveLog[k].ok})
  /\ \A u \in SaveFailed :
       /\ u \in visitedUrls
       /\ Count(gotoLog, u) = 1
       /\ Count(SaveUrls, u) = 1
       /\ u \notin Saved
  /\ (Ended /\ OnlySavesFailed) =>
       /\ pc = "done"
       /\ visitedUrls \subseteq Reachable({})
       /\ Cardinality(visitedUrls) = Min(maxPages, Cardinality(Reachable({})))

\* the write for / failed, and the pages / links to were visited and saved
SaveFailureWitness ==
  /\ pc = "done"
  /\ site = SiteScenario
  /\ errors = {[url |-> Root, op |-> "save"]}
  /\ maxPages = 4
  /\ Cardinality(visitedUrls) = 4
  /\ pageCount = 3

(* C9 *)

\* the error raised by this step, when it raises one
NewError == CHOOSE e \in errors' \ errors : TRUE

\* C9: an error of a render, an extraction or a discovery pops exactly the failing
\* crawlPage and leaves its caller awaiting it; a failed write leaves crawlPage where
\* it is; the caller then calls crawlPage on the next sibling when there is one and
\* budget is left, and returns otherwise; crawl is rejected only before the session
\* is established for a valid seed; and once it is, crawl reaches its completion
\* report with the browser closed.
ErrorPropagation ==
  /\ [][errors' # errors =>
          /\ pc' = "crawling"
          /\ visitedUrls' = visitedUrls
          /\ IF NewError.op = "save"
               THEN Len(stack') = Len(stack) /\ Top(stack').pc = "discover"
               ELSE stack' = Pop(stack)]_vars
  /\ [][Running("await") =>
          LET f == Top(stack)
          IN IF f.i < Len(f.links) /\ Cardinality(visitedUrls) < maxPages
               THEN /\ Len(stack') >= Len(stack)
                    /\ stack'[Len(stack)] = [f EXCEPT !.i = f.i + 1]
               ELSE stack' = Pop(stack)]_vars
  /\ [](pc = "failed" => baseUrl = <<>>)
  /\ (pc = "crawling") ~> (pc = "done" /\ browser = "closed")

\* a render and a link discovery failed, and the crawl completed with a page saved
ErrorPropagationWitness ==
  /\ pc = "done"
  /\ browser = "closed"
  /\ {e.op : e \in errors} = {"goto", "discover"}
  /\ pageCount >= 1

(* C10 *)

\* C10: with maxPages = 0 no url is admitted, no render is issued, no artifact is
\* written and pageCount stays 0.
DegenerateBudget ==
  maxPages = 0 =>
    /\ visitedUrls = {}
    /\ order = <<>>
    /\ gotoLog = <<>>
    /\ saveLog = <<>>
    /\ pageCount = 0

\* a crawl with budget 0 has run to its completion report
DegenerateBudgetWitness == maxPages = 0 /\ pc = "done"

(* C11 *)

\* the hrefs of a document without those new URL() rejects
RECURSIVE DropMalformed(_, _)
DropMalformed(hrefs, base) ==
  IF hrefs = <<>> THEN <<>>
  ELSE IF HrefThrows(Head(hrefs), base) THEN DropMalformed(Tail(hrefs), base)
  ELSE <<Head(hrefs)>> \o DropMalformed(Tail(hrefs), base)

\* no call of the renderer or the filesystem failed for a reason of its own
OnlyHrefErrors == \A e \in errors : e.op = "href"

\* C11: a href that cannot be resolved does not make link discovery fail, and the
\* well-formed same-origin links of the same page are still returned and scheduled:
\* when the crawl ends with budget left, they have all been visited.
MalformedLinks ==
  /\ \A e \in errors : e.op # "href"
  /\ (pc = "done" /\ OnlyHrefErrors /\ Cardinality(visitedUrls) < maxPages) =>
       \A u \in Saved :
         Range(discoverLinks(DropMalformed(Doc(u), baseUrl), baseUrl)) \subseteq visitedUrls

(* C12 *)

\* C12: while a page's link is being expanded the pages that wait below it do not
\* move, so a page goes on to its next sibling link only after everything admitted
\* through the previous one has returned; a page attempts its links one by one in the
\* order discoverLinks returned them; a url is admitted only as the link under
\* expansion of the innermost page; and once the budget is exhausted nothing is
\* admitted and a page that gets control back returns without attempting a sibling.
DepthFirst ==
  /\ [][\A k \in 1..(Len(stack) - 1) : k <= Len(stack') /\ stack'[k] = stack[k]]_vars
  /\ [][(order' # order /\ stack # <<>>) =>
          /\ Len(stack') = Len(stack) + 1
          /\ LET caller == stack'[Len(stack)]
             IN /\ caller.pc = "await"
                /\ caller.i \in 1..Len(caller.links)
                /\ order' = Append(order, caller.links[caller.i])
                /\ Top(stack').url = caller.links[caller.i]]_vars
  /\ [][(stack # <<>> /\ Len(stack') >= Len(stack)) =>
          stack'[Len(stack)].i =
            IF Running("await") THEN Top(stack).i + 1
            ELSE IF Running("discover") THEN 1 ELSE Top(stack).i]_vars
  /\ [][Cardinality(visitedUrls) >= maxPages =>
          /\ order' = order
          /\ Len(stack') <= Len(stack)
          /\ (Running("await") => stack' = Pop(stack))]_vars

\* the budget is exhausted while the innermost page, two levels deep or more, still
\* has sibling links it has not attempted
DepthFirstWitness ==
  /\ Running("await")
  /\ Len(stack) >= 2
  /\ Cardinality(visitedUrls) = maxPages
  /\ Top(stack).i < Len(Top(stack).links)

(* C13 *)

\* C13: a url for which page.goto has been issued, and a url that is being rendered,
\* extracted, saved or expanded, is a member of visitedUrls.
MarkBeforeIO ==
  /\ Range(gotoLog) \subseteq visitedUrls
  /\ Range(SaveUrls) \subseteq visitedUrls
  /\ \A k \in 1..Len(stack) : stack[k].url \in visitedUrls

\* page.goto is in flight for a url that a page discovered
MarkBeforeIOWitness ==
  /\ Running("goto")
  /\ Len(stack) >= 2
  /\ Top(stack).url \in visitedUrls

(* C14 *)

\* C14: the step in which the render of a url fails (page.goto or the wait that
\* follows it) ends that crawlPage normally, with its caller still waiting and with
\* pageCount and the saves unchanged; and for a url whose render failed no save is
\* ever attempted, no crawlPage is active and no further error is raised.
RenderFailure ==
  /\ [][(errors' # errors /\ NewError.op \in {"goto", "wait"}) =>
          /\ NewError.url = Top(stack).url
          /\ stack' = Pop(stack)
          /\ pc' = "crawling"
          /\ pageCount' = pageCount
          /\ saveLog' = saveLog]_vars
  /\ [](\A e \in errors :
          e.op \in {"goto", "wait"} =>
            /\ e.url \notin Range(SaveUrls)
            /\ \A k \in 1..Len(stack) : stack[k].url # e.url
            /\ \A d \in errors : d.url = e.url => d = e)

\* the render of a link failed after a page was saved, and the page that followed
\* the link has control again
RenderFailureWitness ==
  /\ Running("await")
  /\ [url |-> Top(stack).links[Top(stack).i], op |-> "goto"] \in errors
  /\ pageCount >= 1

(* C15 *)

\* C15: every call of crawl() starts with an empty visited set and a page count of
\* zero, and ends with the urls it admitted itself as its visited set and the number
\* of its own successful writes as its page count.
SessionScoped ==
  /\ pc = "launch" => (visitedUrls = {} /\ pageCount = 0)
  /\ pc = "done" =>
       /\ visitedUrls = Range(order)
       /\ pageCount = Cardinality({k \in 1..Len(saveLog) : saveLog[k].ok})

(* C16 *)

\* C16: when two calls of crawl() on one crawler interleave at their awaits, no url
\* is admitted twice, page.goto is issued at most once per url, and the number of
\* urls admitted never exceeds maxPages.
AtomicAdmission ==
  /\ NoDuplicates(order)
  /\ NoDuplicates(gotoLog)
  /\ Cardinality(visitedUrls) = Len(order)
  /\ Len(order) <= maxPages

\* one call has just passed the budget test of line 55 and skipped a link whose url
\* the other call admitted and is rendering
AtomicAdmissionWitness ==
  /\ Running("await")
  /\ other.pc = "crawling"
  /\ other.stack # <<>>
  /\ Top(other.stack).pc = "goto"
  /\ Top(stack).links[Top(stack).i] = Top(other.stack).url

(* C17 *)

\* the names of the files written successfully in the run
Files == {e.file : e \in {x \in Range(saveLog) : x.ok}}

\* the letters and digits of a string, in lower case
AlnumOf(s) == toLowerCase(SelectSeq(s, LAMBDA c : c \in Alnum))

\* two distinct urls that differ only in non-alphanumeric characters or letter case
Alike(u, v) == u # v /\ AlnumOf(u) = AlnumOf(v)

\* C17 as stated: at the end of a crawl the number of distinct file names written
\* equals pageCount, whatever the urls visited.
OneFilePerPageAsStated == pc = "done" => Cardinality(Files) = pageCount

\* C17: at the end of a crawl the number of distinct file names written is at most
\* pageCount, and equals pageCount when no two saved urls differ only in
\* non-alphanumeric characters or letter case.
OneFilePerPage ==
  pc = "done" =>
    /\ Cardinality(Files) <= pageCount
    /\ (\A u, v \in Saved : ~Alike(u, v)) => Cardinality(Files) = pageCount

\* a crawl has ended after saving two urls that differ in letter case or in a
\* non-alphanumeric character only, under one file name
OneFilePerPageWitness ==
  /\ pc = "done"
  /\ \E u, v \in Saved : Alike(u, v) /\ urlToFileName(u) = urlToFileName(v)
  /\ Cardinality(Files) < pageCount

(* C18 *)

\* C18: a crawl with budget maxPages >= 1 in which no call failed ends having
\* visited min(maxPages, R) urls, all among the R urls reachable from the seed through
\* accepted links; when it ends with budget left, every reachable url is visited.
Completeness ==
  (pc = "done" /\ errors = {} /\ maxPages >= 1) =>
    \E R \in {Reachable({})} :
      /\ visitedUrls \subseteq R
      /\ Cardinality(visitedUrls) = Min(maxPages, Cardinality(R))
      /\ BudgetLeft(visitedUrls, maxPages) => visitedUrls = R

\* a crawl without failures has ended with budget left, after visiting the four urls
\* that can be reached
CompletenessWitness ==
  /\ pc = "done"
  /\ errors = {}
  /\ BudgetLeft(visitedUrls, maxPages)
  /\ Cardinality(visitedUrls) >= 4
  /\ visitedUrls = Reachable({})

(* C19 *)

\* C19: in every state of a crawl pageCount <= visitedUrls.size <= maxPages, and
\* pageCount changes only by one, in a step where the write of saveToFile succeeds
\* for the url of the running crawlPage, which is in visitedUrls.
CounterBound ==
  /\ [](pageCount <= Cardinality(visitedUrls) /\ Cardinality(visitedUrls) <= maxPages)
  /\ [][pageCount' # pageCount =>
          /\ pageCount' = pageCount + 1
          /\ Running("save")
          /\ Top(stack).url \in visitedUrls
          /\ Len(saveLog') = Len(saveLog) + 1
          /\ saveLog'[Len(saveLog')].url = Top(stack).url
          /\ saveLog'[Len(saveLog')].ok]_vars

\* the budget is used up, a write has succeeded and another has failed
CounterBoundWitness ==
  /\ maxPages >= 2
  /\ Cardinality(visitedUrls) = maxPages
  /\ pageCount >= 1
  /\ pageCount < Cardinality(visitedUrls)
  /\ SaveFailed # {}
  /\ pc = "done"

====
